---- MODULE Spec2Model ----
(***************************************************************************)
(* Model of Multinpainter_OpenAI (src/src/multinpainter/multinpainter.py): *)
(* the geometry engine, the tile planner, the prompt selection and the     *)
(* sequential painting loop over one shared canvas.                        *)
(*                                                                         *)
(* Five specifications share the variables:                                *)
(*   PlanSpec  the planner as a pure function: Init draws the sizes, the   *)
(*             focus point, the square and the step, and the actions apply *)
(*             calculate_expansion and create_planned_squares;             *)
(*   SizedSpec the same, with inputs of the sizes images have added;       *)
(*   OverlapSpec  human_in_square as a pure function of a square box and   *)
(*             of the detected boxes;                                      *)
(*   Spec      one run of the program: __init__ statement by statement,    *)
(*             then inpaint() with its loop over the plan;                 *)
(*   DeriveSpec  make_prompt_fallback on the answers of the text model.    *)
(***************************************************************************)
EXTENDS Integers, Sequences, FiniteSets, TLC

VARIABLES
    args,             \* the arguments of __init__ and the size of the opened image
    pc,               \* position of the control flow
    error,            \* the exception that ended the run, "none" while there is none
    face_boxes,       \* self.face_boxes
    center_of_focus,  \* self.center_of_focus
    expansion,        \* self.expansion
    human_boxes,      \* self.human_boxes
    planned_squares,  \* self.planned_squares
    out_image,        \* self.out_image: the canvas, pixel -> content
    prompt_human,     \* self.prompt_human
    prompt_fallback,  \* self.prompt_fallback
    inpainting_plan,  \* the list iterative_inpainting loops over
    plan_index,       \* position of the loop in inpainting_plan
    inflight,         \* the inpainting calls awaited right now
    calls,            \* every call made to an external collaborator, in order
    skipped,          \* plan entries that returned early (skip rule)
    snapshots,        \* the snapshot files: their names, the writes, the last write
    saved,            \* the images written by save_image
    square_box,       \* the box human_in_square is applied to
    human_found,      \* what human_in_square returned
    answer,           \* the text model's answer to the fallback derivation
    warnings          \* the number of warnings logged

vars == <<args, pc, error, face_boxes, center_of_focus, expansion, human_boxes,
          planned_squares, out_image, prompt_human, prompt_fallback,
          inpainting_plan, plan_index, inflight, calls, skipped, snapshots, saved,
          square_box, human_found, answer, warnings>>

---------------------------------------------------------------------------
(* Bounds of the model. *)

\* PlanSpec: sides of the source image, of the canvas, and of the square.
PlanMaxIn == 3
PlanMaxOut == 6
PlanMaxSquare == 6
\* Spec: the same for the runs, whose canvas is kept pixel by pixel.
MaxIn == 2
MaxOut == 4
MaxSquare == 2
\* Spec: the latest second the wall clock reaches while snapshots are written.
MaxClock == 1

---------------------------------------------------------------------------
(* Python values. *)

\* None, for the optional string and integer arguments.
NoneStr == "None"

\* Python's truth value of an optional string: None and "" are false.
Truthy(s) == s # NoneStr /\ s # ""

\* a // b for b > 0 (floor division).
FloorDiv(a, b) == a \div b

\* 2 ** e.
RECURSIVE Pow2(_)
Pow2(e) == IF e = 0 THEN 1 ELSE 2 * Pow2(e - 1)

\* The explicit bits after the leading one of a float's significand.
MantissaBits == 52

\* The least k >= from with f * 2**k >= d, for 0 < f < d: f / d lies in the
\* binade [2**-k, 2**(1-k)).
RECURSIVE QuotientBinade(_, _, _)
QuotientBinade(f, d, from) ==
    IF f * Pow2(from) >= d THEN from ELSE QuotientBinade(f, d, from + 1)

\* The greatest p with 2**p <= n, for n >= 1, searched from p = from.
RECURSIVE Log2Floor(_, _)
Log2Floor(n, from) ==
    IF Pow2(from + 1) > n THEN from ELSE Log2Floor(n, from + 1)

\* (r * 2**count) % d.
RECURSIVE ShiftMod(_, _, _)
ShiftMod(r, count, d) ==
    IF count = 0 THEN r ELSE ShiftMod((2 * r) % d, count - 1, d)

\* The float product m * (f / d) lies below the integer n = m*f/d it stands
\* for (m > 0, 0 < f < d, d divides m*f). The quotient f / d is rounded to 53
\* significant bits: it is rounded down by r / (d * 2**(52+k)), r the rest of
\* f * 2**(52+k) by d, when 2*r < d. The product is rounded again, and stays
\* below n when it is more than half a spacing of the floats under n away.
ProductBelow(m, f, d) ==
    LET n == (m * f) \div d
        k == QuotientBinade(f, d, 1)
        r == ShiftMod(f % d, MantissaBits + k, d)
        p == Log2Floor(n, 0)
    IN  /\ r > 0
        /\ 2 * r < d
        /\ IF n = Pow2(p)
           THEN Pow2(p + k) < 4 * m /\ 4 * m * r > d * Pow2(p + k)
           ELSE Pow2(p + k - 1) < m /\ m * r > d * Pow2(p + k - 1)

\* m * (f / d) truncated, for m > 0, 0 <= f < d: the exact quotient's floor
\* unless the quotient is an integer the float product falls short of.
TruncProduct(m, f, d) ==
    IF (m * f) % d # 0 \/ m * f = 0 THEN (m * f) \div d
    ELSE IF ProductBelow(m, f, d) THEN (m * f) \div d - 1 ELSE (m * f) \div d

\* int(m * (f / d)) for d > 0, 0 <= f < d: the float product truncated
\* towards zero.
IntOfProduct(m, f, d) ==
    IF m >= 0 THEN TruncProduct(m, f, d) ELSE -TruncProduct(-m, f, d)

Max(a, b) == IF a >= b THEN a ELSE b
Min(a, b) == IF a <= b THEN a ELSE b

---------------------------------------------------------------------------
(* Fields copied from the arguments by __init__ (lines 160-184). *)

input_width == args.input_width
input_height == args.input_height
out_width == args.out_width
out_height == args.out_height
square == args.square
humans == args.humans
verbose == args.verbose
prompt == args.prompt
fallback == args.fallback

\* self.step = step or square // 2
step == IF args.step # 0 THEN args.step ELSE FloorDiv(args.square, 2)

---------------------------------------------------------------------------
(* Geometry engine. *)

\* find_center_of_focus, the branch without a face: the center of the image.
ImageCenter(w, h) == <<FloorDiv(w, 2), FloorDiv(h, 2)>>

\* calculate_expansion with the right and bottom margins taken from the canvas
\* size alone (the input size is not subtracted).
calculate_expansion_NoInputSize(focus, w, h, W, H) ==
    LET x_left == IntOfProduct(W - w, focus[1], w)
        x_right == W - x_left
        y_top == IntOfProduct(H - h, focus[2], h)
        y_bottom == H - y_top
    IN <<x_left, x_right, y_top, y_bottom>>

\* calculate_expansion: <<x_left, x_right, y_top, y_bottom>>.
calculate_expansion(focus, w, h, W, H) ==
    LET x_left == IntOfProduct(W - w, focus[1], w)
        x_right == W - w - x_left
        y_top == IntOfProduct(H - h, focus[2], h)
        y_bottom == H - h - y_top
    IN <<x_left, x_right, y_top, y_bottom>>

\* get_initial_square_position: <<x_init, y_init>>.
get_initial_square_position(exp, w, h, S) ==
    <<Max(0, exp[1] - FloorDiv(S - w, 2)), Max(0, exp[3] - FloorDiv(S - h, 2))>>

---------------------------------------------------------------------------
(* Tile planner. *)

\* The keys with the diagonal quadrants ahead of the straight directions.
PlanKeys_DiagonalsFirst == <<"init", "up_left", "up_right", "down_left", "down_right",
                             "up", "left", "right", "down">>

\* The keys of the OrderedDict, in insertion order (lines 458-468).
PlanKeys == <<"init", "up", "left", "right", "down",
              "up_left", "up_right", "down_left", "down_right">>

\* move_square with the right and bottom bounds one pixel short of the
\* canvas.
move_square_ShortOfBound(pos, direction, T, S, W, H) ==
    LET x == pos[1]
        y == pos[2]
    IN CASE direction = "up" ->
              LET next_y == Max(0, y - T)
              IN IF next_y = y THEN <<>> ELSE <<x, next_y>>
         [] direction = "left" ->
              LET next_x == Max(0, x - T)
              IN IF next_x = x THEN <<>> ELSE <<next_x, y>>
         [] direction = "right" ->
              LET next_x == Min(x + T, W - S - 1)
              IN IF next_x = x THEN <<>> ELSE <<next_x, y>>
         [] direction = "down" ->
              LET next_y == Min(y + T, H - S - 1)
              IN IF next_y = y THEN <<>> ELSE <<x, next_y>>

\* move_square: the next position, or <<>> where the code returns a None
\* coordinate (the step did not move the square).
move_square(pos, direction, T, S, W, H) ==
    LET x == pos[1]
        y == pos[2]
    IN CASE direction = "up" ->
              LET next_y == Max(0, y - T)
              IN IF next_y = y THEN <<>> ELSE <<x, next_y>>
         [] direction = "left" ->
              LET next_x == Max(0, x - T)
              IN IF next_x = x THEN <<>> ELSE <<next_x, y>>
         [] direction = "right" ->
              LET next_x == Min(x + T, W - S)
              IN IF next_x = x THEN <<>> ELSE <<next_x, y>>
         [] direction = "down" ->
              LET next_y == Min(y + T, H - S)
              IN IF next_y = y THEN <<>> ELSE <<x, next_y>>

\* The while loop appending the position it moves from, not the one it moves
\* to: the list starts with the init square.
RECURSIVE WalkDirection_KeepsStart(_, _, _, _, _, _, _)
WalkDirection_KeepsStart(cur, direction, acc, T, S, W, H) ==
    LET nxt == move_square(cur, direction, T, S, W, H)
    IN IF nxt = <<>> THEN acc
       ELSE WalkDirection_KeepsStart(nxt, direction, Append(acc, cur), T, S, W, H)

\* The while loop of create_planned_squares for one direction (lines 473-478).
RECURSIVE WalkDirection(_, _, _, _, _, _, _)
WalkDirection(cur, direction, acc, T, S, W, H) ==
    LET nxt == move_square(cur, direction, T, S, W, H)
    IN IF nxt = <<>> THEN acc
       ELSE WalkDirection(nxt, direction, Append(acc, nxt), T, S, W, H)

\* The inner loop over planned_squares[left_right] for one up_sq (lines 485-487).
QuadrantRow(up_sq, horizontal) ==
    [j \in 1..Len(horizontal) |-> <<horizontal[j][1], up_sq[2]>>]

\* The loop over planned_squares[up_down] (lines 484-487).
RECURSIVE QuadrantFrom(_, _, _)
QuadrantFrom(vertical, horizontal, i) ==
    IF i > Len(vertical) THEN <<>>
    ELSE QuadrantRow(vertical[i], horizontal) \o QuadrantFrom(vertical, horizontal, i + 1)

\* The quadrant built by pairing the i-th vertical with the i-th horizontal
\* square instead of the two nested loops.
Quadrant_Zip(vertical, horizontal) ==
    [i \in 1..Min(Len(vertical), Len(horizontal)) |-> <<horizontal[i][1], vertical[i][2]>>]

\* The quadrant walked from its far corner: both lists taken backwards.
Quadrant_FarFirst(vertical, horizontal) ==
    QuadrantFrom([i \in 1..Len(vertical) |-> vertical[Len(vertical) + 1 - i]],
                 [j \in 1..Len(horizontal) |-> horizontal[Len(horizontal) + 1 - j]], 1)

\* The quadrant with the two loops exchanged: the horizontal list outside.
Quadrant_HorizontalMajor(vertical, horizontal) ==
    [k \in 1..(Len(vertical) * Len(horizontal)) |->
        <<horizontal[((k - 1) \div Len(vertical)) + 1][1],
          vertical[((k - 1) % Len(vertical)) + 1][2]>>]

Quadrant(vertical, horizontal) == QuadrantFrom(vertical, horizontal, 1)

\* create_planned_squares: the OrderedDict as a record of sequences.
create_planned_squares(exp, w, h, W, H, S, T) ==
    LET init_square == get_initial_square_position(exp, w, h, S)
        straight(d) == WalkDirection(init_square, d, <<>>, T, S, W, H)
    IN [init |-> <<init_square>>,
        up |-> straight("up"),
        left |-> straight("left"),
        right |-> straight("right"),
        down |-> straight("down"),
        up_left |-> Quadrant(straight("up"), straight("left")),
        up_right |-> Quadrant(straight("up"), straight("right")),
        down_left |-> Quadrant(straight("down"), straight("left")),
        down_right |-> Quadrant(straight("down"), straight("right"))]

\* The plan before create_planned_squares has run.
NoPlan == [k \in {PlanKeys[i] : i \in 1..Len(PlanKeys)} |-> <<>>]

\* The comprehension of iterative_inpainting (lines 542-546): the lists of
\* the plan concatenated in key order.
RECURSIVE FlattenFrom(_, _)
FlattenFrom(plan, k) ==
    IF k > Len(PlanKeys) THEN <<>>
    ELSE plan[PlanKeys[k]] \o FlattenFrom(plan, k + 1)

FlattenPlan(plan) == FlattenFrom(plan, 1)

---------------------------------------------------------------------------
(* Skip rule and prompt selection of inpaint_square. *)

\* The skip test on the top-left corner of the square alone.
InsideSource_CornerOnly(pos, exp, w, h, S) ==
    /\ pos[1] >= exp[1]
    /\ pos[2] >= exp[3]
    /\ pos[1] <= exp[1] + w
    /\ pos[2] <= exp[3] + h

\* Line 419: the square lies wholly inside the pasted source rectangle.
InsideSource(pos, exp, w, h, S) ==
    /\ pos[1] >= exp[1]
    /\ pos[2] >= exp[3]
    /\ pos[1] + S <= exp[1] + w
    /\ pos[2] + S <= exp[3] + h

\* The test of human_in_square with touching boxes counted as intersecting.
BoxesIntersect_Touching(a, b) ==
    a[1] <= b[3] /\ a[3] >= b[1] /\ a[2] <= b[4] /\ a[4] >= b[2]

\* x0 < bx1 and x1 > bx0 and y0 < by1 and y1 > by0 (line 398).
BoxesIntersect(a, b) ==
    a[1] < b[3] /\ a[3] > b[1] /\ a[2] < b[4] /\ a[4] > b[2]

\* human_in_square: some box intersects the square box <<x0, y0, x1, y1>>.
human_in_square(box, boxes) ==
    \E i \in 1..Len(boxes) : BoxesIntersect(box, boxes[i])

---------------------------------------------------------------------------
(* The canvas. *)

\* Image.new("RGBA", size, (0, 0, 0, 0)): a fully transparent pixel.
Transparent == 0
\* A pixel of the source image, and a pixel painted by plan entry i.
SourcePixel == Transparent + 1
Painted(i) == SourcePixel + i

Pixels(W, H) == (0..(W - 1)) \X (0..(H - 1))

\* create_out_image: the transparent canvas.
create_out_image(W, H) == [p \in Pixels(W, H) |-> Transparent]

\* A paste that also replaces the column right of the image.
Paste_OneWider(canvas, x, y, w, h, content) ==
    [p \in DOMAIN canvas |->
        IF /\ x <= p[1] /\ p[1] <= x + w
           /\ y <= p[2] /\ p[2] < y + h
        THEN content ELSE canvas[p]]

\* Image.paste(image, (x, y)) of a w x h image whose pixels are `content':
\* the part of the image that falls on the canvas replaces the canvas pixels,
\* the rest of the image is dropped.
Paste(canvas, x, y, w, h, content) ==
    [p \in DOMAIN canvas |->
        IF /\ x <= p[1] /\ p[1] < x + w
           /\ y <= p[2] /\ p[2] < y + h
        THEN content ELSE canvas[p]]

\* Image.crop((x, y, x + S, y + S)): offset -> content, transparent where the
\* box leaves the canvas.
Crop(canvas, x, y, S) ==
    [d \in (0..(S - 1)) \X (0..(S - 1)) |->
        IF <<x + d[1], y + d[2]>> \in DOMAIN canvas
        THEN canvas[<<x + d[1], y + d[2]>>] ELSE Transparent]

---------------------------------------------------------------------------
(* PlanSpec: calculate_expansion and create_planned_squares on drawn inputs. *)

Flags(h, v, p, f) == [humans |-> h, verbose |-> v, prompt |-> p, fallback |-> f]

Args(w, h, W, H, S, T, fl) ==
    [input_width |-> w, input_height |-> h, out_width |-> W, out_height |-> H,
     square |-> S, step |-> T, humans |-> fl.humans, verbose |-> fl.verbose,
     prompt |-> fl.prompt, fallback |-> fl.fallback]

\* No snapshot written yet. A snapshot file is named by the second of its
\* timestamp (the stem of out_path is the same for all).
NoSnapshots == [files |-> {}, writes |-> 0, last |-> 0]

\* Everything a run has not touched yet.
Untouched ==
    /\ error = "none"
    /\ face_boxes = <<>>
    /\ expansion = <<>>
    /\ human_boxes = <<>>
    /\ planned_squares = NoPlan
    /\ out_image = <<>>
    /\ prompt_human = NoneStr
    /\ prompt_fallback = NoneStr
    /\ inpainting_plan = <<>>
    /\ plan_index = 0
    /\ inflight = {}
    /\ calls = <<>>
    /\ skipped = {}
    /\ snapshots = NoSnapshots
    /\ saved = {}
    /\ square_box = <<>>
    /\ human_found = FALSE
    /\ answer = NoneStr
    /\ warnings = 0

InitPlan ==
    /\ \E w \in 1..PlanMaxIn, h \in 1..PlanMaxIn,
          W \in 1..PlanMaxOut, H \in 1..PlanMaxOut, S \in 1..PlanMaxSquare :
         \E T \in 0..S, fx \in 0..(w - 1), fy \in 0..(h - 1) :
            /\ args = Args(w, h, W, H, S, T, Flags(FALSE, FALSE, "P", NoneStr))
            /\ center_of_focus = <<fx, fy>>
    /\ pc = "plan_input"
    /\ Untouched

\* self.expansion = self.calculate_expansion()
ApplyCalculateExpansion ==
    /\ pc = "plan_input"
    /\ expansion' = calculate_expansion(center_of_focus, input_width, input_height,
                                        out_width, out_height)
    /\ pc' = "plan_expanded"
    /\ UNCHANGED <<args, answer, warnings, square_box, human_found, inpainting_plan, error, face_boxes, center_of_focus, human_boxes,
                   planned_squares, out_image, prompt_human, prompt_fallback,
                   plan_index, inflight, calls, skipped, snapshots, saved>>

\* self.planned_squares = self.create_planned_squares()
ApplyCreatePlannedSquares ==
    /\ pc = "plan_expanded"
    /\ planned_squares' = create_planned_squares(expansion, input_width, input_height,
                                                 out_width, out_height, square, step)
    /\ pc' = "planned"
    /\ UNCHANGED <<args, answer, warnings, square_box, human_found, inpainting_plan, error, face_boxes, center_of_focus, expansion, human_boxes,
                   out_image, prompt_human, prompt_fallback,
                   plan_index, inflight, calls, skipped, snapshots, saved>>

NextPlan == ApplyCalculateExpansion \/ ApplyCreatePlannedSquares

PlanSpec == InitPlan /\ [][NextPlan]_vars

---------------------------------------------------------------------------
(* SizedSpec: the same two steps, on the inputs of PlanSpec and on inputs of
   the sizes images have. *)

\* Source size, canvas size and square side: a small image doubled, and an
\* 800 x 600 image extended to 1920 x 1080 with the default square.
SizedImages == {<<22, 22, 44, 44, 32>>, <<800, 600, 1920, 1080, 1024>>}

\* The step argument: None (0), half the square, a quarter of the square.
SizedSteps(S) == {0, S \div 2, S \div 4}

\* A coordinate of the focus point: the center, or 15 (a face near an edge).
SizedFocus(side) == {side \div 2, 15}

InitSized ==
    \/ InitPlan
    \/ /\ \E im \in SizedImages :
            \E T \in SizedSteps(im[5]), fx \in SizedFocus(im[1]),
               fy \in SizedFocus(im[2]) :
               /\ args = Args(im[1], im[2], im[3], im[4], im[5], T,
                              Flags(FALSE, FALSE, "P", NoneStr))
               /\ center_of_focus = <<fx, fy>>
       /\ pc = "plan_input"
       /\ Untouched

SizedSpec == InitSized /\ [][NextPlan]_vars

---------------------------------------------------------------------------
(* OverlapSpec: human_in_square on drawn inputs. *)

\* The largest coordinate of a box, and the largest left or top margin.
MaxCoord == 2
MaxOffset == 1

\* Boxes <<x0, y0, x1, y1>> of positive area with corners in 0..MaxCoord.
Boxes ==
    {b \in (0..MaxCoord) \X (0..MaxCoord) \X (0..MaxCoord) \X (0..MaxCoord) :
        b[1] < b[3] /\ b[2] < b[4]}

\* The lists a detector returns, sorted by x0 (models.py, line 51): here at
\* most one box for each x0, the first x0 at least from.
RECURSIVE BoxLists(_)
BoxLists(from) ==
    {<<>>} \cup
    UNION {{<<b>> \o rest : rest \in BoxLists(b[1] + 1)} :
              b \in {c \in Boxes : c[1] >= from}}

\* The boxes inpaint_square builds: (x, y, x + square, y + square).
SquareBoxes == {b \in Boxes : b[3] - b[1] = b[4] - b[2]}

\* The inputs drawn from the bounds: the margins, the boxes found in a source
\* image of MaxCoord x MaxCoord pixels, and a square on the canvas.
OverlapInputs ==
    \E l \in 0..MaxOffset, t \in 0..MaxOffset, sq \in SquareBoxes :
        /\ args = Args(MaxCoord, MaxCoord, MaxCoord + 2 * l, MaxCoord + 2 * t,
                       sq[3] - sq[1], 0, Flags(TRUE, FALSE, "P", "F"))
        /\ expansion = <<l, l, t, t>>
        /\ square_box = sq
        /\ human_boxes \in BoxLists(0)

\* One person found at (100, 100, 200, 200) in a 400 x 400 image that fills
\* the canvas, and two squares.
OverlapExample ==
    /\ \E sq \in {<<150, 150, 300, 300>>, <<300, 300, 400, 400>>} :
          /\ args = Args(400, 400, 400, 400, sq[3] - sq[1], 0,
                         Flags(TRUE, FALSE, "P", "F"))
          /\ square_box = sq
    /\ expansion = <<0, 0, 0, 0>>
    /\ human_boxes = <<<<100, 100, 200, 200>>>>

InitOverlap ==
    /\ OverlapInputs \/ OverlapExample
    /\ pc = "overlap_input"
    /\ error = "none"
    /\ face_boxes = <<>>
    /\ center_of_focus = <<>>
    /\ planned_squares = NoPlan
    /\ out_image = <<>>
    /\ prompt_human = NoneStr
    /\ prompt_fallback = NoneStr
    /\ inpainting_plan = <<>>
    /\ plan_index = 0
    /\ inflight = {}
    /\ calls = <<>>
    /\ skipped = {}
    /\ snapshots = NoSnapshots
    /\ saved = {}
    /\ human_found = FALSE
    /\ answer = NoneStr
    /\ warnings = 0

\* self.human_in_square((x, y, x1, y1)), as inpaint_square calls it.
ApplyHumanInSquare ==
    /\ pc = "overlap_input"
    /\ human_found' = human_in_square(square_box, human_boxes)
    /\ pc' = "overlap_tested"
    /\ UNCHANGED <<args, answer, warnings, square_box, inpainting_plan, error, face_boxes,
                   center_of_focus, expansion, human_boxes, planned_squares,
                   out_image, prompt_human, prompt_fallback, plan_index,
                   inflight, calls, skipped, snapshots, saved>>

NextOverlap == ApplyHumanInSquare

OverlapSpec == InitOverlap /\ [][NextOverlap]_vars

---------------------------------------------------------------------------
(* Spec: one run, Multinpainter_OpenAI(...) followed by inpaint(). *)

Init ==
    /\ \E w \in 1..MaxIn, h \in 1..MaxIn, W \in 1..MaxOut, H \in 1..MaxOut,
          S \in 1..MaxSquare :
         \E T \in 0..S, hu \in BOOLEAN, v \in BOOLEAN,
            p \in {NoneStr, "P"}, f \in {NoneStr, "F"} :
            args = Args(w, h, W, H, S, T, Flags(hu, v, p, f))
    /\ center_of_focus = <<>>
    /\ pc = "init"
    /\ Untouched

\* One entry of the log of collaborator calls.
Call(fn, index, pos, text) == [fn |-> fn, index |-> index, pos |-> pos, prompt |-> text]

\* What detect_faces_dlib can return for a w x h image: None (<<>>) or the
\* first rectangle of the detector, faces[0].
FaceResults(w, h) == {<<>>, <<0, 0, w, h>>, <<0, 0, 1, 1>>}

\* __init__, lines 160-185: open_image, the sizes, create_out_image.
CtorOpen ==
    /\ pc = "init"
    /\ out_image' = create_out_image(out_width, out_height)
    /\ pc' = "detect_faces"
    /\ UNCHANGED <<args, answer, warnings, square_box, human_found, inpainting_plan, error, face_boxes, center_of_focus, expansion, human_boxes,
                   planned_squares, prompt_human, prompt_fallback, plan_index,
                   inflight, calls, skipped, snapshots, saved>>

\* self.detect_faces() (line 186): the face detector is called on the image.
DetectFaces ==
    /\ pc = "detect_faces"
    /\ \E r \in FaceResults(input_width, input_height) : face_boxes' = r
    /\ calls' = Append(calls, Call("detect_faces", 0, <<>>, NoneStr))
    /\ pc' = "find_center_of_focus"
    /\ UNCHANGED <<args, answer, warnings, square_box, human_found, inpainting_plan, error, center_of_focus, expansion, human_boxes,
                   planned_squares, out_image, prompt_human, prompt_fallback,
                   plan_index, inflight, skipped, snapshots, saved>>

\* self.find_center_of_focus() (line 187). With a face, face_boxes is one
\* rectangle object, and self.face_boxes[0] is not a box of four numbers:
\* the unpacking in line 346 raises. Without, the center of the image.
FindCenterOfFocus ==
    /\ pc = "find_center_of_focus"
    /\ IF face_boxes # <<>>
       THEN /\ pc' = "failed"
            /\ error' = "TypeError"
            /\ UNCHANGED center_of_focus
       ELSE /\ center_of_focus' = ImageCenter(input_width, input_height)
            /\ pc' = "calculate_expansion"
            /\ UNCHANGED error
    /\ UNCHANGED <<args, answer, warnings, square_box, human_found, inpainting_plan, face_boxes, expansion, human_boxes, planned_squares,
                   out_image, prompt_human, prompt_fallback, plan_index,
                   inflight, calls, skipped, snapshots, saved>>

\* self.expansion = self.calculate_expansion() (line 188).
CalculateExpansion ==
    /\ pc = "calculate_expansion"
    /\ expansion' = calculate_expansion(center_of_focus, input_width, input_height,
                                        out_width, out_height)
    /\ pc' = "detect_humans"
    /\ UNCHANGED <<args, answer, warnings, square_box, human_found, inpainting_plan, error, face_boxes, center_of_focus, human_boxes,
                   planned_squares, out_image, prompt_human, prompt_fallback,
                   plan_index, inflight, calls, skipped, snapshots, saved>>

\* Lines 189-191. With humans, detect_humans() imports detect_humans_yolov8,
\* a name models.py does not define (it defines detect_humans_yolo): the
\* import raises before any detector runs. Without, human_boxes is [] and
\* make_prompt_fallback is not called.
DetectHumans ==
    /\ pc = "detect_humans"
    /\ IF humans
       THEN /\ pc' = "failed"
            /\ error' = "ImportError"
            /\ UNCHANGED human_boxes
       ELSE /\ human_boxes' = <<>>
            /\ pc' = "paste_input_image"
            /\ UNCHANGED error
    /\ UNCHANGED <<args, answer, warnings, square_box, human_found, inpainting_plan, face_boxes, center_of_focus, expansion, planned_squares,
                   out_image, prompt_human, prompt_fallback, plan_index,
                   inflight, calls, skipped, snapshots, saved>>

\* paste_input_image (lines 192, 371): the source goes to (x_left, y_top).
paste_input_image(canvas, exp, w, h) == Paste(canvas, exp[1], exp[3], w, h, SourcePixel)

\* Lines 192-197: paste_input_image, create_planned_squares, the prompts.
PasteAndPlan ==
    /\ pc = "paste_input_image"
    /\ out_image' = paste_input_image(out_image, expansion, input_width, input_height)
    /\ planned_squares' = create_planned_squares(expansion, input_width, input_height,
                                                 out_width, out_height, square, step)
    /\ pc' = "constructed"
    /\ UNCHANGED <<args, answer, warnings, square_box, human_found, inpainting_plan, error, face_boxes, center_of_focus, expansion, human_boxes,
                   prompt_human, prompt_fallback, plan_index,
                   inflight, calls, skipped, snapshots, saved>>

\* The fallback prompt the loop uses (line 539): self.fallback or self.prompt.
FallbackOrPrompt(fb, pr) == IF Truthy(fb) THEN fb ELSE pr

\* iterative_inpainting, lines 535-549. Without a prompt, describe_image()
\* imports describe_image_huggingface, a name models.py does not define (it
\* defines describe_image_hf): the import raises before any captioning call.
IterativeInpaintingStart ==
    /\ pc = "constructed"
    /\ IF ~Truthy(prompt)
       THEN /\ pc' = "failed"
            /\ error' = "ImportError"
            /\ UNCHANGED <<prompt_human, prompt_fallback, inpainting_plan, plan_index>>
       ELSE /\ prompt_human' = prompt
            /\ prompt_fallback' = FallbackOrPrompt(fallback, prompt)
            /\ inpainting_plan' = FlattenPlan(planned_squares)
            /\ plan_index' = 1
            /\ pc' = "loop"
            /\ UNCHANGED error
    /\ UNCHANGED <<args, answer, warnings, square_box, human_found, face_boxes, center_of_focus,
                   expansion, human_boxes, planned_squares, out_image, inflight,
                   calls, skipped, snapshots, saved>>

\* The entry of inpainting_plan the loop is at.
CurrentSquare == inpainting_plan[plan_index]
PlanLen == Len(inpainting_plan)

\* The two branches of the prompt choice exchanged.
SelectPrompt_Swapped(box, boxes, ph, pf) ==
    IF human_in_square(box, boxes) THEN pf ELSE ph

\* Lines 424-427: the prompt for a square box.
SelectPrompt(box, boxes, ph, pf) ==
    IF human_in_square(box, boxes) THEN ph ELSE pf

SquareBox(pos, S) == <<pos[1], pos[2], pos[1] + S, pos[2] + S>>

\* inpaint_square, lines 417-420: the square lies inside the source, return.
InpaintSquareSkip ==
    /\ pc = "loop"
    /\ plan_index <= PlanLen
    /\ InsideSource(CurrentSquare, expansion, input_width, input_height, square)
    /\ skipped' = skipped \cup {plan_index}
    /\ plan_index' = plan_index + 1
    /\ UNCHANGED <<args, answer, warnings, square_box, human_found, inpainting_plan, pc, error, face_boxes, center_of_focus, expansion,
                   human_boxes, planned_squares, out_image, prompt_human,
                   prompt_fallback, inflight, calls, snapshots, saved>>

\* inpaint_square, lines 422-430 up to the await: crop the square from the
\* canvas, choose the prompt, call the inpainting collaborator.
InpaintSquareCall ==
    /\ pc = "loop"
    /\ plan_index <= PlanLen
    /\ ~InsideSource(CurrentSquare, expansion, input_width, input_height, square)
    /\ LET pos == CurrentSquare
           text == SelectPrompt(SquareBox(pos, square), human_boxes,
                                prompt_human, prompt_fallback)
       IN /\ inflight' = inflight \cup
                {[index |-> plan_index, pos |-> pos, prompt |-> text,
                  square |-> Crop(out_image, pos[1], pos[2], square)]}
          /\ calls' = Append(calls, Call("inpaint", plan_index, pos, text))
    /\ pc' = "awaiting"
    /\ UNCHANGED <<args, answer, warnings, square_box, human_found, inpainting_plan, error, face_boxes, center_of_focus, expansion, human_boxes,
                   planned_squares, out_image, prompt_human, prompt_fallback,
                   plan_index, skipped, snapshots, saved>>

\* The second of the last snapshot: the clock does not go back.
LastStamp == snapshots.last

\* snapshot(): with verbose, the canvas is saved under the stem and the
\* timestamp of the second (lines 219-228); a file of that name is replaced.
snapshot(snaps, v, stamp) ==
    IF v THEN [files |-> snaps.files \cup {stamp}, writes |-> snaps.writes + 1,
               last |-> stamp]
    ELSE snaps

\* A loop that tries the same entry again.
NextIndex_Retry(i) == i

\* The loop goes on to the next entry (line 550).
NextIndex(i) == i + 1

\* inpaint_square, lines 430-432 after the await: the result is pasted at
\* (x, y) and the snapshot is taken; the loop goes on.
InpaintSquareReturn ==
    /\ pc = "awaiting"
    /\ \E c \in inflight :
          /\ c.index = plan_index
          /\ out_image' = Paste(out_image, c.pos[1], c.pos[2], square, square,
                                Painted(c.index))
          /\ inflight' = inflight \ {c}
          /\ \E stamp \in LastStamp..Min(LastStamp + 1, MaxClock) :
                snapshots' = snapshot(snapshots, verbose, stamp)
    /\ plan_index' = NextIndex(plan_index)
    /\ pc' = "loop"
    /\ UNCHANGED <<args, answer, warnings, square_box, human_found, inpainting_plan, error, face_boxes, center_of_focus, expansion, human_boxes,
                   planned_squares, prompt_human, prompt_fallback, calls, skipped,
                   saved>>

\* The exception of the collaborator caught inside the loop: the square stays
\* unpainted and the loop goes on.
InpaintSquareFail_Swallowed ==
    /\ pc = "awaiting"
    /\ inflight' = {}
    /\ pc' = "loop"
    /\ error' = "InpaintError"
    /\ plan_index' = plan_index + 1
    /\ UNCHANGED <<args, answer, warnings, square_box, human_found, inpainting_plan, face_boxes, center_of_focus, expansion, human_boxes,
                   planned_squares, out_image, prompt_human, prompt_fallback,
                   calls, skipped, snapshots, saved>>

\* The inpainting collaborator raises: the exception leaves inpaint_square,
\* iterative_inpainting and inpaint (nothing catches it).
InpaintSquareFail ==
    /\ pc = "awaiting"
    /\ inflight' = {}
    /\ pc' = "failed"
    /\ error' = "InpaintError"
    /\ UNCHANGED <<args, answer, warnings, square_box, human_found, inpainting_plan, face_boxes, center_of_focus, expansion, human_boxes,
                   planned_squares, out_image, prompt_human, prompt_fallback,
                   plan_index, calls, skipped, snapshots, saved>>

\* inpaint, line 559: after the loop, save_image.
SaveImage ==
    /\ pc = "loop"
    /\ plan_index > PlanLen
    /\ saved' = saved \cup {out_image}
    /\ pc' = "saved"
    /\ UNCHANGED <<args, answer, warnings, square_box, human_found, inpainting_plan, error, face_boxes, center_of_focus, expansion, human_boxes,
                   planned_squares, out_image, prompt_human, prompt_fallback,
                   plan_index, inflight, calls, skipped, snapshots>>

Next ==
    \/ CtorOpen
    \/ DetectFaces
    \/ FindCenterOfFocus
    \/ CalculateExpansion
    \/ DetectHumans
    \/ PasteAndPlan
    \/ IterativeInpaintingStart
    \/ InpaintSquareSkip
    \/ InpaintSquareCall
    \/ InpaintSquareReturn
    \/ InpaintSquareFail
    \/ SaveImage

Spec == Init /\ [][Next]_vars

---------------------------------------------------------------------------
(* DeriveSpec: make_prompt_fallback on drawn inputs. *)

\* The fallback make_prompt_fallback derives from the primary prompt "P": the
\* approved descriptors joined with ", ", then ", no humans" (line 281).
DerivedFallback == "approved descriptors of P, no humans"

\* The same for a dictionary without "approved": ", ".join([]) + ", no humans".
EmptyDerivedFallback == ", no humans"

\* What the text model can answer: a JSON dictionary with a list of phrases
\* under "approved", a dictionary without that key, a dictionary whose
\* "approved" holds something else than strings, JSON that is no dictionary
\* (a list, a string), and text that is not JSON.
Answers == {"approved", "no_approved", "approved_not_strings",
            "not_a_dictionary", "not_json"}

\* The object when make_prompt_fallback is entered: as __init__ calls it at
\* line 191, before self.prompt, self.fallback (lines 195-196) and
\* self.prompt_human (line 537) are assigned, or with them assigned as lines
\* 195-196 and 537-539 do. Some human box has been detected (line 190).
InitDerive ==
    /\ \E f \in {NoneStr, "", "F"}, hb \in BoxLists(0) \ {<<>>}, assigned \in BOOLEAN :
          /\ args = Args(MaxCoord, MaxCoord, MaxCoord, MaxCoord, 1, 0,
                         Flags(TRUE, FALSE, "P", f))
          /\ human_boxes = hb
          /\ pc = IF assigned THEN "derive_assigned" ELSE "derive_in_init"
          /\ prompt_human = IF assigned THEN "P" ELSE NoneStr
          /\ prompt_fallback = IF assigned THEN FallbackOrPrompt(f, "P") ELSE NoneStr
    /\ error = "none"
    /\ face_boxes = <<>>
    /\ center_of_focus = <<>>
    /\ expansion = <<0, 0, 0, 0>>
    /\ planned_squares = NoPlan
    /\ out_image = <<>>
    /\ inpainting_plan = <<>>
    /\ plan_index = 0
    /\ inflight = {}
    /\ calls = <<>>
    /\ skipped = {}
    /\ snapshots = NoSnapshots
    /\ saved = {}
    /\ square_box = <<>>
    /\ human_found = FALSE
    /\ answer = NoneStr
    /\ warnings = 0

\* make_prompt_fallback, lines 266-276: `if self.fallback' reads an attribute
\* that does not exist before line 196 (AttributeError); with a fallback the
\* method returns; otherwise the text model is asked about self.prompt_human.
MakePromptFallback ==
    /\ pc \in {"derive_in_init", "derive_assigned"}
    /\ IF pc = "derive_in_init"
       THEN /\ pc' = "failed"
            /\ error' = "AttributeError"
            /\ UNCHANGED calls
       ELSE IF Truthy(fallback)
       THEN /\ pc' = "derive_returned"
            /\ UNCHANGED <<error, calls>>
       ELSE /\ calls' = Append(calls, Call("derive_fallback", 0, <<>>, prompt_human))
            /\ pc' = "derive_awaiting"
            /\ UNCHANGED error
    /\ UNCHANGED <<args, answer, warnings, square_box, human_found, inpainting_plan,
                   face_boxes, center_of_focus, expansion, human_boxes,
                   planned_squares, out_image, prompt_human, prompt_fallback,
                   plan_index, inflight, skipped, snapshots, saved>>

\* make_prompt_fallback, lines 277-284: json.loads(result).get("approved", [])
\* and the join, with `except json.decoder.JSONDecodeError' around them. Text
\* that is not JSON is caught (a warning); .get on parsed JSON that is no
\* dictionary raises AttributeError and the join of non-strings TypeError,
\* neither of which is caught.
MakePromptFallbackReturn ==
    /\ pc = "derive_awaiting"
    /\ \E a \in Answers :
          /\ answer' = a
          /\ CASE a = "approved" ->
                    /\ prompt_fallback' = DerivedFallback
                    /\ pc' = "derive_returned"
                    /\ UNCHANGED <<error, warnings>>
               [] a = "no_approved" ->
                    /\ prompt_fallback' = EmptyDerivedFallback
                    /\ pc' = "derive_returned"
                    /\ UNCHANGED <<error, warnings>>
               [] a = "not_json" ->
                    /\ warnings' = warnings + 1
                    /\ pc' = "derive_returned"
                    /\ UNCHANGED <<error, prompt_fallback>>
               [] a = "not_a_dictionary" ->
                    /\ error' = "AttributeError"
                    /\ pc' = "failed"
                    /\ UNCHANGED <<warnings, prompt_fallback>>
               [] a = "approved_not_strings" ->
                    /\ error' = "TypeError"
                    /\ pc' = "failed"
                    /\ UNCHANGED <<warnings, prompt_fallback>>
    /\ UNCHANGED <<args, square_box, human_found, inpainting_plan, face_boxes,
                   center_of_focus, expansion, human_boxes, planned_squares,
                   out_image, prompt_human, plan_index, inflight, calls, skipped,
                   snapshots, saved>>

NextDerive == MakePromptFallback \/ MakePromptFallbackReturn

DeriveSpec == InitDerive /\ [][NextDerive]_vars

---------------------------------------------------------------------------
(* Properties of the geometry engine and of the planner (PlanSpec). *)

\* The inputs the planner is specified for.
SourceFits == input_width <= out_width /\ input_height <= out_height
SquareFits == square <= out_width /\ square <= out_height
StepValid == 0 < step /\ step <= square

\* The squares of the plan, in paint order.
PlanSquares == FlattenPlan(planned_squares)

\* C1: for a source that fits the canvas and a focus point inside the source,
\* the expansion has left + right = W - w, top + bottom = H - h, and no
\* negative margin.
C1_ExpansionSums ==
    (pc \in {"plan_expanded", "planned"} /\ SourceFits) =>
        /\ expansion[1] + expansion[2] = out_width - input_width
        /\ expansion[3] + expansion[4] = out_height - input_height
        /\ \A i \in 1..4 : expansion[i] >= 0
        /\ expansion[1] + input_width + expansion[2] = out_width
        /\ expansion[3] + input_height + expansion[4] = out_height

\* C1 witness: an off-center focus point splits both margins unevenly.
C1_Witness ==
    /\ pc = "plan_expanded"
    /\ SourceFits
    /\ center_of_focus # ImageCenter(input_width, input_height)
    /\ expansion[1] > expansion[2]
    /\ expansion[2] > 0
    /\ expansion[3] > 0
    /\ expansion[4] > expansion[3]

\* C3: for valid inputs every square of the plan, the init square included,
\* lies on the canvas: x >= 0, y >= 0, x + S <= W, y + S <= H.
C3_SquaresOnCanvas ==
    (pc = "planned" /\ SourceFits /\ SquareFits /\ StepValid) =>
        LET plan == PlanSquares
        IN \A i \in 1..Len(plan) :
              /\ plan[i][1] >= 0
              /\ plan[i][2] >= 0
              /\ plan[i][1] + square <= out_width
              /\ plan[i][2] + square <= out_height

\* The pixels of the canvas the pasted source does not cover.
OutsideSource(p) ==
    ~ /\ expansion[1] <= p[1] /\ p[1] < expansion[1] + input_width
      /\ expansion[3] <= p[2] /\ p[2] < expansion[3] + input_height

\* The square at pos is painted (not left out by the skip rule) and covers
\* pixel p.
PaintsPixel(pos, p) ==
    /\ pos[1] <= p[1] /\ p[1] < pos[1] + square
    /\ pos[2] <= p[2] /\ p[2] < pos[2] + square
    /\ ~InsideSource(pos, expansion, input_width, input_height, square)

\* C4: for valid inputs every canvas pixel outside the pasted source lies in
\* a square of the plan that is painted, so a completed plan leaves no pixel
\* transparent.
C4_PlanCoversMargin ==
    (pc = "planned" /\ SourceFits /\ SquareFits /\ StepValid) =>
        LET plan == PlanSquares
        IN \A p \in Pixels(out_width, out_height) :
              OutsideSource(p) => \E i \in 1..Len(plan) : PaintsPixel(plan[i], p)

\* C4 witness: a plan with diagonal squares whose vertical and horizontal
\* lists differ in length, and a corner pixel only a diagonal square covers.
C4_Witness ==
    /\ pc = "planned" /\ SourceFits /\ SquareFits /\ StepValid
    /\ Len(planned_squares.down) # Len(planned_squares.right)
    /\ Len(planned_squares.up_left) > 0
    /\ Len(planned_squares.down_right) > 1
    /\ LET plan == PlanSquares
           straight == 1 + Len(planned_squares.up) + Len(planned_squares.left)
                         + Len(planned_squares.right) + Len(planned_squares.down)
       IN \E p \in Pixels(out_width, out_height) :
             /\ OutsideSource(p)
             /\ \A i \in 1..Len(plan) : PaintsPixel(plan[i], p) => i > straight

---------------------------------------------------------------------------
(* Properties of a run (Spec). *)

\* The states in which the painting loop has started.
InLoop == pc \in {"loop", "awaiting", "saved"} \/ error = "InpaintError"

\* Positions in `calls' of the calls to the inpainting collaborator.
InpaintCalls == {k \in 1..Len(calls) : calls[k].fn = "inpaint"}

\* Plan entry i has been reached by the loop.
Reached(i) == i < plan_index \/ (i = plan_index /\ (pc = "awaiting" \/ error = "InpaintError"))

\* C2: with a canvas smaller than the source in either dimension, construction
\* fails before any external collaborator is invoked and before the source is
\* pasted (and cropped) onto the canvas.
C2_FailFast ==
    ~SourceFits =>
        /\ calls = <<>>
        /\ pc \notin {"constructed", "loop", "awaiting", "saved"}

\* Every pixel of the square of plan entry i is a pixel of the pasted source.
SquareWithinSource(i) ==
    \A dx, dy \in 0..(square - 1) :
        ~OutsideSource(<<inpainting_plan[i][1] + dx, inpainting_plan[i][2] + dy>>)

\* C5: a planned square wholly inside the pasted source is never cropped, never
\* sent to the inpainting collaborator and leaves the canvas as it is; every
\* other planned square the loop reaches is sent.
C5_SkipRule ==
    InLoop =>
        LET sent == {calls[k].index : k \in InpaintCalls}
            painted == {out_image[p] : p \in DOMAIN out_image}
        IN \A i \in 1..Len(inpainting_plan) :
              IF SquareWithinSource(i)
              THEN /\ i \notin sent
                   /\ \A c \in inflight : c.index # i
                   /\ Painted(i) \notin painted
                   /\ Reached(i) => i \in skipped
              ELSE /\ i \notin skipped
                   /\ Reached(i) => i \in sent

\* C5 witness: a completed run that skipped squares and painted others.
C5_Witness ==
    /\ pc = "saved"
    /\ Cardinality(skipped) >= 2
    /\ Cardinality(InpaintCalls) >= 2

\* The square of a call overlaps a RegionBox (open-rectangle test).
Overlaps(c) == human_in_square(SquareBox(c.pos, square), human_boxes)

C7_PrimaryWhenHumansOff ==
    ~humans =>
        /\ \A k \in InpaintCalls : calls[k].prompt = prompt
        /\ \A k \in 1..Len(calls) : calls[k].fn # "derive_fallback"

\* C8: with region awareness enabled and no fallback supplied, the run gets
\* past human detection, and every square that overlaps no RegionBox is sent
\* with the fallback derived from the primary prompt.
C8_DerivedFallbackUsed ==
    (humans /\ ~Truthy(fallback) /\ Truthy(prompt)) =>
        /\ error # "ImportError"
        /\ \A k \in InpaintCalls : ~Overlaps(calls[k]) => calls[k].prompt = DerivedFallback

\* The calls to the inpainting collaborator that have returned, in order.
ReturnedCalls == SelectSeq(calls, LAMBDA c : c.fn = "inpaint" /\ c.index < plan_index)

\* The last of the first k returned calls whose square covers pixel p, or 0.
RECURSIVE LastCover(_, _, _)
LastCover(ret, p, k) ==
    IF k = 0 THEN 0
    ELSE IF /\ ret[k].pos[1] <= p[1] /\ p[1] < ret[k].pos[1] + square
            /\ ret[k].pos[2] <= p[2] /\ p[2] < ret[k].pos[2] + square
         THEN k
         ELSE LastCover(ret, p, k - 1)

\* The content of canvas pixel p once the returned squares `ret' are pasted:
\* the latest returned square that covers p, else the source, else nothing.
ExpectedPixel(ret, p) ==
    LET k == LastCover(ret, p, Len(ret))
    IN IF k > 0 THEN Painted(ret[k].index)
       ELSE IF OutsideSource(p) THEN Transparent ELSE SourcePixel

\* How often plan entry i was attempted: the calls for it among the calls at
\* the positions ic, plus its skip.
Attempts(ic, i) ==
    Cardinality({k \in ic : calls[k].index = i}) + (IF i \in skipped THEN 1 ELSE 0)

\* C9: the plan is processed strictly in order, each entry attempted exactly
\* once, at most one inpainting call in flight; a call is issued only after the
\* results of all earlier entries are pasted, and the square cropped for it
\* holds those results.
C9_Sequential ==
    InLoop =>
        /\ Cardinality(inflight) <= 1
        /\ (inflight # {}) <=> (pc = "awaiting")
        /\ LET ic == InpaintCalls
           IN /\ \A j, k \in ic : j < k => calls[j].index < calls[k].index
              /\ \A i \in 1..Len(inpainting_plan) :
                    Attempts(ic, i) = IF Reached(i) THEN 1 ELSE 0
        /\ pc = "saved" => plan_index = Len(inpainting_plan) + 1
        /\ LET ret == ReturnedCalls
           IN \A p \in DOMAIN out_image : out_image[p] = ExpectedPixel(ret, p)
        /\ \A c \in inflight :
              /\ c.index = plan_index
              /\ c.pos = inpainting_plan[plan_index]
              /\ LET ret == ReturnedCalls
                 IN \A d \in DOMAIN c.square :
                       c.square[d] =
                           IF <<c.pos[1] + d[1], c.pos[2] + d[2]>> \in DOMAIN out_image
                           THEN ExpectedPixel(ret, <<c.pos[1] + d[1], c.pos[2] + d[2]>>)
                           ELSE Transparent

\* C9 witness: a call in flight whose cropped square holds pixels painted by
\* two earlier entries.
C9_Witness ==
    /\ pc = "awaiting"
    /\ \E c \in inflight :
          \E d1, d2 \in DOMAIN c.square :
              /\ c.square[d1] > SourcePixel
              /\ c.square[d2] > SourcePixel
              /\ c.square[d1] # c.square[d2]

\* C10: a failure of the inpainting collaborator ends the run at that square:
\* nothing later is cropped or sent, the canvas keeps the pastes of the squares
\* completed before, and no final image is written; the final image is written
\* only after every plan entry was skipped or painted.
C10_FailureStopsRun ==
    /\ error = "InpaintError" =>
          /\ pc = "failed"
          /\ saved = {}
          /\ inflight = {}
          /\ \A k \in InpaintCalls : calls[k].index <= plan_index
          /\ \E k \in InpaintCalls : calls[k].index = plan_index
          /\ LET ret == ReturnedCalls
             IN \A p \in DOMAIN out_image : out_image[p] = ExpectedPixel(ret, p)
          /\ ~ENABLED Next
    /\ saved # {} =>
          /\ pc = "saved"
          /\ error = "none"
          /\ saved = {out_image}
          /\ LET returned == {calls[k].index : k \in InpaintCalls} \cap 1..(plan_index - 1)
             IN \A i \in 1..Len(inpainting_plan) : i \in skipped \/ i \in returned

\* C10 witness: the collaborator failed after two squares had been painted.
C10_Witness ==
    /\ error = "InpaintError"
    /\ Cardinality(InpaintCalls) >= 3
    /\ plan_index < Len(inpainting_plan)
    /\ \E p \in DOMAIN out_image : out_image[p] > SourcePixel

---------------------------------------------------------------------------
(* Claims C11 to C20. *)

\* The expansion the formula of calculate_expansion gives in exact arithmetic.
ExactExpansion(focus, w, h, W, H) ==
    LET left == FloorDiv((W - w) * focus[1], w)
        top == FloorDiv((H - h) * focus[2], h)
    IN <<left, (W - w) - left, top, (H - h) - top>>

\* C11: for a source that fits the canvas and a focus point inside the source,
\* calculate_expansion returns left = floor((W - w) * fx / w),
\* right = (W - w) - left, top = floor((H - h) * fy / h),
\* bottom = (H - h) - top; the 800 x 600 image centered on a 1920 x 1080
\* canvas gets (560, 560, 240, 240).
C11_ExpansionFormula ==
    (pc \in {"plan_expanded", "planned"} /\ SourceFits) =>
        /\ expansion = ExactExpansion(center_of_focus, input_width, input_height,
                                      out_width, out_height)
        /\ (/\ <<input_width, input_height>> = <<800, 600>>
            /\ <<out_width, out_height>> = <<1920, 1080>>
            /\ center_of_focus = <<400, 300>>) => expansion = <<560, 560, 240, 240>>

\* The half-open pixel ranges of two boxes share a pixel.
SharePixel(a, b) ==
    \E px \in a[1]..(a[3] - 1), py \in a[2]..(a[4] - 1) :
        /\ b[1] <= px /\ px < b[3]
        /\ b[2] <= py /\ py < b[4]

\* C12: human_in_square returns true exactly when some detected box
\* (bx0, by0, bx1, by1) has x0 < bx1, x1 > bx0, y0 < by1 and y1 > by0 for the
\* square box (x0, y0, x1, y1): the two share a pixel. Boxes that only touch
\* at an edge or a corner do not intersect, and an empty list never does. The
\* box (100, 100, 200, 200) intersects the square (150, 150, 300, 300) and
\* not the square (300, 300, 400, 400).
C12_HumanInSquare ==
    pc = "overlap_tested" =>
        LET sq == square_box
            boxes == {human_boxes[i] : i \in 1..Len(human_boxes)}
        IN /\ human_found <=>
                \E b \in boxes : sq[1] < b[3] /\ sq[3] > b[1] /\ sq[2] < b[4] /\ sq[4] > b[2]
           /\ human_found <=> \E b \in boxes : SharePixel(sq, b)
           /\ (\A b \in boxes : sq[1] = b[3] \/ sq[3] = b[1] \/ sq[2] = b[4] \/ sq[4] = b[2])
                 => ~human_found
           /\ human_boxes = <<>> => ~human_found
           /\ (human_boxes = <<<<100, 100, 200, 200>>>> /\ sq = <<150, 150, 300, 300>>)
                 => human_found
           /\ (human_boxes = <<<<100, 100, 200, 200>>>> /\ sq = <<300, 300, 400, 400>>)
                 => ~human_found

\* C12 witness: of two detected boxes the first only touches the square at a
\* corner and the second intersects it.
C12_Witness ==
    /\ pc = "overlap_tested"
    /\ Len(human_boxes) = 2
    /\ human_boxes[1][3] = square_box[1]
    /\ human_boxes[1][4] = square_box[2]
    /\ ~BoxesIntersect(square_box, human_boxes[1])
    /\ BoxesIntersect(square_box, human_boxes[2])
    /\ human_found

\* inpaint() has been entered: the constructor has returned (the plan is
\* made) and iterative_inpainting has taken its first step.
InpaintEntered ==
    pc \in {"loop", "awaiting", "saved"} \/ (pc = "failed" /\ planned_squares # NoPlan)

\* Positions in `calls' of the calls to the captioning collaborator.
CaptionCalls == {k \in 1..Len(calls) : calls[k].fn = "describe_image"}

\* C13: when the caller supplies no primary prompt, the captioning
\* collaborator is invoked once, before the painting loop, and the string it
\* returns is the primary prompt of the run: the run goes on to the loop with
\* a prompt that is not None.
C13_CaptionIsPrompt ==
    (~Truthy(prompt) /\ InpaintEntered) =>
        /\ Cardinality(CaptionCalls) = 1
        /\ \A k \in CaptionCalls, j \in InpaintCalls : k < j
        /\ error # "ImportError"
        /\ Truthy(prompt_human)

\* C14: the focus point is the center of the detected face box when the face
\* detector returns one, and the center of the image (w div 2, h div 2) when
\* it returns nothing; either way construction goes on to the planning.
C14_FocusPoint ==
    pc \notin {"init", "detect_faces", "find_center_of_focus"} =>
        /\ error # "TypeError"
        /\ center_of_focus =
              IF face_boxes # <<>>
              THEN <<FloorDiv(face_boxes[1] + face_boxes[3], 2),
                     FloorDiv(face_boxes[2] + face_boxes[4], 2)>>
              ELSE ImageCenter(input_width, input_height)

\* The init square and the straight lists of the plan, and its quadrants.
StraightPart(ps) == ps.init \o ps.up \o ps.left \o ps.right \o ps.down
DiagonalPart(ps) == ps.up_left \o ps.up_right \o ps.down_left \o ps.down_right

\* C15: the loop visits the plan in the key order init, up, left, right, down,
\* up_left, up_right, down_left, down_right and in list order within a key:
\* the init square first, every straight square before any diagonal one, so
\* that when the diagonal square (x, y) is processed the straight squares
\* (x, y_init) and (x_init, y) have been processed.
C15_PaintOrder ==
    InLoop =>
        LET plan == inpainting_plan
            ps == planned_squares
            ns == Len(StraightPart(planned_squares))
            ic == InpaintCalls
        IN /\ plan = StraightPart(ps) \o DiagonalPart(ps)
           /\ plan[1] = ps.init[1]
           /\ \A k \in ic : calls[k].pos = plan[calls[k].index]
           /\ \A k1, k2 \in ic : k1 < k2 => calls[k1].index < calls[k2].index
           /\ \A i \in 1..Len(plan) :
                 Reached(i) =>
                    \A j \in 1..(i - 1) :
                        j \in skipped \/ \E k \in ic : calls[k].index = j /\ j < plan_index
           /\ \A i \in (ns + 1)..Len(plan) :
                 Reached(i) =>
                    /\ \E j \in 2..ns : j < plan_index /\ plan[j] = <<plan[i][1], plan[1][2]>>
                    /\ \E j \in 2..ns : j < plan_index /\ plan[j] = <<plan[1][1], plan[i][2]>>

\* C15 witness: a run that has painted a diagonal square after the squares of
\* two straight directions.
C15_Witness ==
    /\ pc = "saved"
    /\ planned_squares.right # <<>>
    /\ planned_squares.down # <<>>
    /\ planned_squares.down_right # <<>>
    /\ \E k \in InpaintCalls : calls[k].index > Len(StraightPart(planned_squares))

\* The list `seq', entered from `from', changes coordinate c by the sign sgn
\* (-1: strictly decreasing, 1: strictly increasing) from square to square and
\* keeps the other coordinate.
MovesAway(from, seq, c, sgn) ==
    LET path == <<from>> \o seq
    IN \A i \in 1..Len(seq) :
          /\ sgn * (path[i + 1][c] - path[i][c]) > 0
          /\ path[i + 1][3 - c] = from[3 - c]

\* C16: for valid inputs every straight list moves away from the init square:
\* x strictly decreasing in 'left' and y in 'up', x strictly increasing in
\* 'right' and y in 'down', starting from the init square's coordinate, with
\* the other coordinate equal to the init square's.
C16_StraightMonotone ==
    (pc = "planned" /\ SourceFits /\ SquareFits /\ StepValid) =>
        LET ps == planned_squares
            init_square == planned_squares.init[1]
        IN /\ MovesAway(init_square, ps.left, 1, -1)
           /\ MovesAway(init_square, ps.up, 2, -1)
           /\ MovesAway(init_square, ps.right, 1, 1)
           /\ MovesAway(init_square, ps.down, 2, 1)

\* The list `seq' is the walk from `from' in `direction': every square is the
\* move of the one before, and the move of the last one (of `from' for an empty
\* list) leaves the position unchanged.
StopsAtFirstRest(from, seq, direction) ==
    LET path == <<from>> \o seq
    IN /\ \A i \in 1..Len(seq) :
             path[i + 1] = move_square(path[i], direction, step, square,
                                       out_width, out_height)
       /\ move_square(path[Len(path)], direction, step, square,
                      out_width, out_height) = <<>>

\* No square of `seq' is `from', and no square is in `seq' twice.
NoRepeat(from, seq) ==
    /\ \A i \in 1..Len(seq) : seq[i] # from
    /\ \A i, j \in 1..Len(seq) : i # j => seq[i] # seq[j]

\* A list that is not empty ends with coordinate c at `bound'.
EndsAt(seq, c, bound) == seq # <<>> => seq[Len(seq)][c] = bound

\* C17: with a step T > 0 create_planned_squares terminates: every straight
\* list ends the first time a step leaves the position unchanged, holds the
\* boundary position once and never the init position, and a list that is not
\* empty ends at the bound of the canvas: x = 0 for 'left', y = 0 for 'up',
\* x = W - S for 'right', y = H - S for 'down'. With S = 1024 and T = 512 on
\* the 1920 x 1080 canvas and the expansion (560, 560, 240, 240) the 'right'
\* list ends with x = 896.
C17_StraightTerminates ==
    (pc = "planned" /\ step > 0) =>
        LET ps == planned_squares
            init_square == planned_squares.init[1]
        IN /\ \A d \in {"up", "left", "right", "down"} :
                 /\ StopsAtFirstRest(init_square, ps[d], d)
                 /\ NoRepeat(init_square, ps[d])
                 /\ Len(ps[d]) <= out_width + out_height + square
           /\ EndsAt(ps.left, 1, 0)
           /\ EndsAt(ps.up, 2, 0)
           /\ EndsAt(ps.right, 1, out_width - square)
           /\ EndsAt(ps.down, 2, out_height - square)
           /\ (/\ <<out_width, out_height, square, step>> = <<1920, 1080, 1024, 512>>
               /\ expansion = <<560, 560, 240, 240>>)
                 => /\ ps.right # <<>>
                    /\ ps.right[Len(ps.right)][1] = 896

\* C17 witness: the 1920 x 1080 plan with S = 1024, T = 512 and the expansion
\* (560, 560, 240, 240), whose 'right' list is cut short by the canvas.
C17_Witness ==
    /\ pc = "planned"
    /\ <<out_width, out_height, square, step>> = <<1920, 1080, 1024, 512>>
    /\ expansion = <<560, 560, 240, 240>>
    /\ planned_squares.right = <<<<896, planned_squares.init[1][2]>>>>
    /\ planned_squares.init[1][1] + step > 896

\* The list q pairs every square of `vertical' with every square of
\* `horizontal', the vertical list outermost.
CrossProduct(q, vertical, horizontal) ==
    /\ Len(q) = Len(vertical) * Len(horizontal)
    /\ \A i \in 1..Len(vertical), j \in 1..Len(horizontal) :
          q[(i - 1) * Len(horizontal) + j] = <<horizontal[j][1], vertical[i][2]>>
    /\ (vertical = <<>> \/ horizontal = <<>>) => q = <<>>

\* C18: every diagonal list is the full cross product of its vertical and its
\* horizontal straight list: it holds (x of the horizontal square, y of the
\* vertical square) for every pair, ordered with the vertical list outermost,
\* has len(vertical) * len(horizontal) entries and is empty when either list
\* is empty.
C18_QuadrantCrossProduct ==
    pc = "planned" =>
        LET ps == planned_squares
        IN /\ CrossProduct(ps.up_left, ps.up, ps.left)
           /\ CrossProduct(ps.up_right, ps.up, ps.right)
           /\ CrossProduct(ps.down_left, ps.down, ps.left)
           /\ CrossProduct(ps.down_right, ps.down, ps.right)

\* C18 witness: a quadrant of three rows of two squares, next to an empty one.
C18_Witness ==
    /\ pc = "planned"
    /\ Len(planned_squares.down) = 3
    /\ Len(planned_squares.right) = 2
    /\ Len(planned_squares.down_right) = 6
    /\ planned_squares.down_right[3] =
          <<planned_squares.right[1][1], planned_squares.down[2][2]>>
    /\ planned_squares.up = <<>>
    /\ planned_squares.up_right = <<>>

\* A box of the source image moved by the paste offset (left, top): the place
\* on the canvas of what the box holds.
OnCanvas(b, exp) == <<b[1] + exp[1], b[2] + exp[3], b[3] + exp[1], b[4] + exp[3]>>

\* C19: the human boxes a square is tested against are in canvas coordinates:
\* a human found in the source image at box b is compared as b moved by the
\* paste offset (left, top), so a square that is sent gets the primary prompt
\* exactly when it intersects the place of a human on the canvas.
C19_BoxesOnCanvas ==
    (/\ pc = "overlap_tested"
     /\ ~InsideSource(<<square_box[1], square_box[2]>>, expansion,
                      input_width, input_height, square)) =>
        (human_found <=>
            \E i \in 1..Len(human_boxes) :
                BoxesIntersect(square_box, OnCanvas(human_boxes[i], expansion)))

\* Positions in `calls' of the calls to the collaborator that derives the
\* fallback prompt.
DeriveCalls == {k \in 1..Len(calls) : calls[k].fn = "derive_fallback"}

\* The constructor is past the human detection of line 189.
PastDetectHumans ==
    /\ pc \notin {"init", "detect_faces", "find_center_of_focus",
                  "calculate_expansion", "detect_humans"}
    /\ error # "TypeError"

---------------------------------------------------------------------------
(* Claims C21 to C25. *)

\* The answers that are not the JSON dictionary asked for.
Malformed == {"not_json", "not_a_dictionary"}

\* C21: when the answer of the text model to the fallback derivation is
\* malformed (it cannot be parsed as the JSON dictionary asked for), the
\* failure is recovered locally: a warning is logged, no exception reaches the
\* caller, no fallback is derived, and the squares without overlap go on with
\* the primary prompt.
C21_MalformedAnswerSoftFail ==
    answer \in Malformed =>
        /\ error = "none"
        /\ pc = "derive_returned"
        /\ warnings = 1
        /\ prompt_fallback = prompt

\* C22: with verbose on, one snapshot of the canvas is written for every
\* painted square, after its paste and before the next square starts, and the
\* snapshots of different squares are different files (none replaces an
\* earlier one); skipped squares write none, and with verbose off no snapshot
\* is written at all.
C22_SnapshotPerTile ==
    LET painted == Len(ReturnedCalls)
    IN /\ verbose => /\ snapshots.writes = painted
                     /\ Cardinality(snapshots.files) = painted
       /\ ~verbose => snapshots = NoSnapshots

\* Pixel p lies in the square of side `square' at pos.
InSquare(pos, p) ==
    /\ pos[1] <= p[1] /\ p[1] < pos[1] + square
    /\ pos[2] <= p[2] /\ p[2] < pos[2] + square

\* The source has been pasted (paste_input_image has run).
SourcePasted == planned_squares # NoPlan

\* The pixels outside the pasted source and outside every square painted so
\* far are transparent.
UnpaintedTransparent ==
    LET ret == ReturnedCalls
    IN \A p \in DOMAIN out_image :
          \/ out_image[p] = Transparent
          \/ SourcePasted /\ ~OutsideSource(p)
          \/ \E k \in 1..Len(ret) : InSquare(ret[k].pos, p)

\* The pixels a step changes: those of the square for the paste of a painted
\* square, those of the source rectangle for the step that pastes the source
\* and plans, none for any other step on an existing canvas.
StepFrame ==
    out_image' # out_image =>
        \A p \in DOMAIN out_image :
            (p \in DOMAIN out_image' /\ out_image'[p] # out_image[p]) =>
                \/ /\ pc = "awaiting"
                   /\ pc' = "loop"
                   /\ InSquare(inpainting_plan[plan_index], p)
                \/ /\ pc = "paste_input_image"
                   /\ pc' = "constructed"
                   /\ ~OutsideSource(p)
                   /\ out_image'[p] = SourcePixel

\* C23: at every point of a run a canvas pixel outside the pasted source
\* rectangle and outside every square painted so far is fully transparent;
\* painting the square at (x, y) changes no pixel outside
\* [x, x + S) x [y, y + S), and planning changes no pixel at all.
C23_Frame == [](UnpaintedTransparent) /\ [][StepFrame]_vars

\* C23 witness: a square has been painted next to pixels that are neither
\* source nor painted, and those are transparent.
C23_Witness ==
    /\ pc = "loop"
    /\ Len(ReturnedCalls) = 1
    /\ \E p \in DOMAIN out_image :
          /\ OutsideSource(p)
          /\ ~InSquare(ReturnedCalls[1].pos, p)
          /\ out_image[p] = Transparent
    /\ \E p \in DOMAIN out_image : out_image[p] = Painted(ReturnedCalls[1].index)

\* C24: for valid inputs with 0 < T < S every square sent to the inpainting
\* collaborator has context: when it is cropped, its box holds at least one
\* canvas pixel that is not transparent (a source pixel or a pixel of an
\* earlier painted square), so no square is sent fully transparent.
C24_SentSquareHasContext ==
    (SourceFits /\ SquareFits /\ 0 < step /\ step < square) =>
        \A c \in inflight : \E d \in DOMAIN c.square : c.square[d] # Transparent

\* C24 witness: a square is sent whose only context is the paint of earlier
\* squares: its crop holds no source pixel.
C24_Witness ==
    /\ SourceFits /\ SquareFits /\ 0 < step /\ step < square
    /\ pc = "awaiting"
    /\ \E c \in inflight :
          /\ \A d \in DOMAIN c.square : c.square[d] # SourcePixel
          /\ \E d \in DOMAIN c.square : c.square[d] \notin {Transparent, SourcePixel}
          /\ \E d \in DOMAIN c.square : c.square[d] = Transparent

\* The squares of a list, as a set.
SquaresOf(seq) == {seq[i] : i \in 1..Len(seq)}

\* Some quadrant square of the plan ps has the coordinates of the init square
\* or of a straight square.
DiagonalRepeatsStraight(ps) ==
    SquaresOf(DiagonalPart(ps)) \cap SquaresOf(StraightPart(ps)) # {}

\* Two entries of the flattened plan have the same coordinates.
PlanRepeats(ps) ==
    LET plan == FlattenPlan(ps)
    IN \E i, j \in 1..Len(plan) : i < j /\ plan[i] = plan[j]

====
